---------------------------- MODULE Spec2Model ----------------------------
(***************************************************************************)
(* A model of the MS2 matching core of the XCMS visualization backend:     *)
(* the feature locator and the precursor-to-feature correlator             *)
(* (backend/ms2_extractor.py), the similarity engine                       *)
(* (backend/spectral_matcher.py, backend/ms2query_matcher.py), the result  *)
(* aggregator (backend/results_processor.py), the table loader             *)
(* (backend/data_loader.py) and the matching workflow endpoint             *)
(* (backend/main.py).                                                      *)
(*                                                                         *)
(* Numbers.  The code computes on floats; the model computes on integers.  *)
(* An m/z is counted in units of 0.005 Da (so the default tolerance of     *)
(* 0.01 Da is 2), a retention time in seconds, a similarity score in       *)
(* tenths.  A quotient a/b + c/d with b, d > 0 is compared through its     *)
(* numerator a*d + c*b over the common denominator b*d.                    *)
(***************************************************************************)
EXTENDS Integers, Sequences, FiniteSets

(***************************************************************************)
(* Bounds of the model.                                                    *)
(***************************************************************************)
MaxFeatures == 2      \* rows of the feature table
MaxMz == 2            \* m/z values are 0..MaxMz
MaxRt == 2            \* retention times are 0, 30, .., 30 * MaxRt seconds
MaxSpectra == 2       \* raw spectra read from one instrument file
MaxPeaks == 2         \* peaks of one raw spectrum
MaxLibrary == 3       \* spectra of the reference library
MaxReturned == 2      \* matches the ms2query library returns for one query
MaxMatches == 4       \* candidates handed to calculate_confidence_score
MaxResults == 3       \* annotated results handed to generate_summary_statistics
MaxConnections == 3   \* websocket connections that exist during one broadcast

(***************************************************************************)
(* Values of the program.                                                  *)
(***************************************************************************)
None == -1                  \* Python's None, where the code yields it
ZeroDivisionError == -2     \* the float division x / 0.0 raises
DEFAULT_MZ_TOLERANCE == 2   \* 0.01 Da
DEFAULT_RT_TOLERANCE == 30  \* 30.0 seconds
DEFAULT_MIN_INTENSITY == 100
DEFAULT_TOP_N == 10
SECONDS_PER_MINUTE == 60    \* precursor_rt = spectrum.scan_time[0] * 60
PairRaises == -3            \* similarity_fn.pair raises
NaN == -4                   \* float("nan"), what pandas reads from a blank cell
Missing == "(missing)"      \* a metadata key the spectrum does not have
NoneValue == [type |-> "NoneType"]   \* Python's None where a dict may stand

Abs(x) == IF x < 0 THEN -x ELSE x
Min(a, b) == IF a <= b THEN a ELSE b
SeqsUpTo(S, n) == UNION {[1..k -> S] : k \in 0..n}

MzVals == 0..MaxMz
RtVals == {DEFAULT_RT_TOLERANCE * k : k \in 0..MaxRt}
\* Tolerances: a negative one, zero, and values up to the defaults' double.
MzToleranceVals == {-1, 0, 1, DEFAULT_MZ_TOLERANCE}
RtToleranceVals == {-DEFAULT_RT_TOLERANCE, 0, DEFAULT_RT_TOLERANCE, 2 * DEFAULT_RT_TOLERANCE}
FeatureNames == <<"F1", "F2", "F3", "F4">>

VARIABLES
    xcms_peaks,      \* the feature table: a sequence of [name, mz, rt]
    mz_tolerance,    \* m/z tolerance of the run
    rt_tolerance,    \* retention time tolerance of the run
    precursor,       \* [mz, rt] handed to the feature locator
    matched_peak,    \* what the locator returned: an index of xcms_peaks,
                     \* None (also before the call) or ZeroDivisionError
    min_intensity,   \* intensity threshold of the extraction
    run,             \* the raw spectra the reader has yielded so far
    ms2_spectra,     \* extract_ms2_spectra's output list
    locator_calls,   \* positions in run of the spectra the locator was called for
    mz1,             \* spectrum1.peaks.mz of count_matched_peaks
    mz2,             \* spectrum2.peaks.mz of count_matched_peaks
    matched,         \* what count_matched_peaks returned
    query_spectra,   \* the query spectra handed to the matchers
    library_spectra, \* the parsed reference library
    similarity,      \* similarity_fn.pair as a table over pairs of peak lists
    min_score,       \* config.min_score, in tenths
    top_n,           \* config.top_n
    requested_algorithm,   \* request_data["algorithm"]
    algorithm,       \* match_spectra's algorithm
    ms2query_ready,  \* [available, library_loads] of the ms2query package
    matching_results,   \* the result list a matcher builds and returns
    processed_results,  \* process_matching_results' list
    response,        \* what match_spectra returns
    cand_matches,    \* matches handed to calculate_confidence_score
    cand_best_match, \* best_match handed to calculate_confidence_score
    confidence,      \* what calculate_confidence_score returned
    annotated_results,  \* the list handed to generate_summary_statistics
    summary,         \* what generate_summary_statistics returned
    csv_table,       \* the feature table file read by load_xcms_data
    loaded,          \* what load_xcms_data returned or raised
    active_connections,   \* the module-level list of registered websockets
    link,            \* per websocket: "unused", "open", or "closed" by the peer
    handler,         \* per websocket: where its websocket_progress coroutine is
    next_index,      \* position of the list iterator of broadcast_progress
    disconnected,    \* the local list of connections whose send raised
    attempts,        \* per websocket: send_json calls made by the broadcast
    delivered,       \* per websocket: send_json calls that returned
    registered_at_start,  \* active_connections when the broadcast began
    pc               \* where the program is

locVars == <<precursor, matched_peak>>
cfgVars == <<xcms_peaks, mz_tolerance, rt_tolerance, min_intensity>>
extVars == <<run, ms2_spectra, locator_calls>>
cntVars == <<mz1, mz2, matched>>
inVars == <<query_spectra, library_spectra, similarity, min_score, top_n,
            requested_algorithm, ms2query_ready>>
wfVars == <<algorithm, matching_results, processed_results, response>>
scoreVars == <<cand_matches, cand_best_match, confidence>>
sumVars == <<annotated_results, summary>>
loadVars == <<csv_table, loaded>>
bcVars == <<active_connections, link, handler, next_index, disconnected, attempts,
            delivered, registered_at_start>>
vars == <<xcms_peaks, mz_tolerance, rt_tolerance, precursor, matched_peak,
          min_intensity, run, ms2_spectra, locator_calls, mz1, mz2, matched,
          query_spectra, library_spectra, similarity, min_score, top_n,
          requested_algorithm, algorithm,
          ms2query_ready, matching_results, processed_results, response,
          cand_matches, cand_best_match, confidence, annotated_results, summary,
          csv_table, loaded, active_connections, link, handler, next_index,
          disconnected, attempts, delivered, registered_at_start, pc>>

\* What each operation leaves alone because it belongs to another one.
outsideLocator == <<min_intensity, extVars, cntVars, inVars, wfVars, scoreVars, sumVars, loadVars, bcVars>>
outsideExtract == <<cntVars, inVars, wfVars, scoreVars, sumVars, loadVars, bcVars>>
outsideCount == <<xcms_peaks, rt_tolerance, min_intensity, locVars, extVars, inVars, wfVars,
                  scoreVars, sumVars, loadVars, bcVars>>
outsideWorkflow == <<xcms_peaks, rt_tolerance, min_intensity, locVars, extVars, cntVars,
                     scoreVars, sumVars, loadVars, bcVars>>
outsideAggregator == <<cfgVars, locVars, extVars, cntVars, inVars, wfVars, bcVars>>
outsideBroadcast == <<cfgVars, locVars, extVars, cntVars, inVars, wfVars, scoreVars, sumVars,
                      loadVars>>

\* The state of the operations that are not running.
LocatorIdle ==
    /\ xcms_peaks = <<>>
    /\ rt_tolerance = DEFAULT_RT_TOLERANCE
    /\ precursor = [mz |-> 0, rt |-> 0]
    /\ matched_peak = None
ExtractIdle ==
    /\ min_intensity = DEFAULT_MIN_INTENSITY
    /\ run = <<>>
    /\ ms2_spectra = <<>>
    /\ locator_calls = <<>>
CountIdle ==
    /\ mz1 = <<>>
    /\ mz2 = <<>>
    /\ matched = 0
WorkflowIdle ==
    /\ query_spectra = <<>>
    /\ library_spectra = <<>>
    /\ similarity = <<>>
    /\ min_score = 0
    /\ top_n = DEFAULT_TOP_N
    /\ requested_algorithm = "ms2query"
    /\ algorithm = "ms2query"
    /\ ms2query_ready = [available |-> FALSE, library_loads |-> FALSE]
    /\ matching_results = <<>>
    /\ processed_results = <<>>
    /\ response = [status |-> "pending"]
ConfidenceIdle ==
    /\ cand_matches = <<>>
    /\ cand_best_match = NoneValue
    /\ confidence = <<0, 1>>
SummaryIdle ==
    /\ annotated_results = <<>>
    /\ summary = NoneValue
LoadIdle ==
    /\ csv_table = [columns |-> {}, blanks |-> <<>>]
    /\ loaded = [status |-> "pending"]
BroadcastIdle ==
    /\ active_connections = <<>>
    /\ link = <<>>
    /\ handler = <<>>
    /\ next_index = 0
    /\ disconnected = <<>>
    /\ attempts = <<>>
    /\ delivered = <<>>
    /\ registered_at_start = <<>>

(***************************************************************************)
(* Feature Locator: find_matching_xcms_peak.                               *)
(***************************************************************************)
\* if mz_diff <= mz_tolerance or rt_diff <= rt_tolerance   (one bound only)
within_tolerance_either(peak, mz, rt, mz_tol, rt_tol) ==
    Abs(peak.mz - mz) <= mz_tol \/ Abs(peak.rt - rt) <= rt_tol

\* if mz_diff <= mz_tolerance and rt_diff <= rt_tolerance
within_tolerance(peak, mz, rt, mz_tol, rt_tol) ==
    Abs(peak.mz - mz) <= mz_tol /\ Abs(peak.rt - rt) <= rt_tol

\* score = (mz_diff / mz_tolerance) + (rt_diff / rt_tolerance), as its
\* numerator over mz_tolerance * rt_tolerance
combined_distance(peak, mz, rt, mz_tol, rt_tol) ==
    Abs(peak.mz - mz) * rt_tol + Abs(peak.rt - rt) * mz_tol

\* if score <= best_score   (a later tie replaces the earlier peak)
improves_or_ties(score, best_match, best_score) ==
    best_match = None \/ score <= best_score

\* if score < best_score, with best_score = inf while best_match is None
improves(score, best_match, best_score) ==
    best_match = None \/ score < best_score

\* for peak in xcms_peaks: ... from the k-th peak on
RECURSIVE scan_xcms_peaks(_, _, _, _, _, _, _, _)
scan_xcms_peaks(peaks, k, mz, rt, mz_tol, rt_tol, best_match, best_score) ==
    IF k > Len(peaks) THEN best_match
    ELSE IF within_tolerance(peaks[k], mz, rt, mz_tol, rt_tol)
    THEN IF mz_tol = 0 \/ rt_tol = 0 THEN ZeroDivisionError
         ELSE LET score == combined_distance(peaks[k], mz, rt, mz_tol, rt_tol)
              IN  IF improves(score, best_match, best_score)
                  THEN scan_xcms_peaks(peaks, k + 1, mz, rt, mz_tol, rt_tol, k, score)
                  ELSE scan_xcms_peaks(peaks, k + 1, mz, rt, mz_tol, rt_tol,
                                       best_match, best_score)
    ELSE scan_xcms_peaks(peaks, k + 1, mz, rt, mz_tol, rt_tol, best_match, best_score)

find_matching_xcms_peak(peaks, mz, rt, mz_tol, rt_tol) ==
    scan_xcms_peaks(peaks, 1, mz, rt, mz_tol, rt_tol, None, 0)

(***************************************************************************)
(* The locator on its own: any feature table, query and tolerances.        *)
(***************************************************************************)
\* Tables whose rows are named F1, F2, .. in row order.
NamedTables ==
    {[i \in DOMAIN t |-> [name |-> FeatureNames[i], mz |-> t[i][1], rt |-> t[i][2]]] :
        t \in SeqsUpTo(MzVals \X RtVals, MaxFeatures)}

InitLocator ==
    /\ xcms_peaks \in NamedTables
    /\ mz_tolerance \in MzToleranceVals
    /\ rt_tolerance \in RtToleranceVals
    /\ precursor \in [mz : MzVals, rt : RtVals]
    /\ matched_peak = None
    /\ ExtractIdle
    /\ CountIdle
    /\ WorkflowIdle
    /\ ConfidenceIdle
    /\ SummaryIdle
    /\ LoadIdle
    /\ pc = "find_matching_xcms_peak"
    /\ BroadcastIdle

FindMatchingXcmsPeak ==
    /\ pc = "find_matching_xcms_peak"
    /\ pc' = "returned"
    /\ matched_peak' = find_matching_xcms_peak(xcms_peaks, precursor.mz, precursor.rt,
                                               mz_tolerance, rt_tolerance)
    /\ UNCHANGED <<xcms_peaks, mz_tolerance, rt_tolerance, precursor, outsideLocator>>

NextLocator == FindMatchingXcmsPeak

SpecLocator == InitLocator /\ [][NextLocator]_vars

IsPeak(r) == r \in 1..Len(xcms_peaks)

\* C1: whenever find_matching_xcms_peak returns a feature, the feature is
\* within mz_tolerance of the query m/z and within rt_tolerance of the query
\* retention time, both at once.
C1_ReturnedPeakWithinBothBounds ==
    IsPeak(matched_peak) =>
        /\ Abs(xcms_peaks[matched_peak].mz - precursor.mz) <= mz_tolerance
        /\ Abs(xcms_peaks[matched_peak].rt - precursor.rt) <= rt_tolerance

\* A feature was returned from a table that also holds a feature inside one
\* bound and outside the other.
C1_Witness ==
    /\ IsPeak(matched_peak)
    /\ \E i \in 1..Len(xcms_peaks) :
          /\ Abs(xcms_peaks[i].mz - precursor.mz) <= mz_tolerance
          /\ Abs(xcms_peaks[i].rt - precursor.rt) > rt_tolerance

\* The features within both bounds of the query, and the combined distance
\* of feature i as the numerator of |dmz|/mz_tolerance + |drt|/rt_tolerance.
Candidates ==
    {i \in 1..Len(xcms_peaks) :
        /\ Abs(xcms_peaks[i].mz - precursor.mz) <= mz_tolerance
        /\ Abs(xcms_peaks[i].rt - precursor.rt) <= rt_tolerance}
Distance(i) ==
    Abs(xcms_peaks[i].mz - precursor.mz) * rt_tolerance
        + Abs(xcms_peaks[i].rt - precursor.rt) * mz_tolerance

\* C2: among the features within both bounds, find_matching_xcms_peak
\* returns one of minimal combined distance, and of those the first in
\* table order (the distance is defined for positive tolerances).
C2_ReturnsFirstNearestCandidate ==
    (pc = "returned" /\ mz_tolerance > 0 /\ rt_tolerance > 0 /\ Candidates # {}) =>
        /\ matched_peak \in Candidates
        /\ \A j \in Candidates :
              /\ Distance(matched_peak) <= Distance(j)
              /\ Distance(j) = Distance(matched_peak) => matched_peak <= j

\* The first of two candidates tied at the minimal distance was returned,
\* under tolerances that weigh m/z and retention time differently.
C2_Witness ==
    /\ pc = "returned" /\ mz_tolerance > 0 /\ rt_tolerance > 0
    /\ IsPeak(matched_peak)
    /\ \E j \in Candidates :
          /\ j > matched_peak
          /\ Distance(j) = Distance(matched_peak)
          /\ xcms_peaks[j].mz # xcms_peaks[matched_peak].mz

(***************************************************************************)
(* Precursor-to-Feature Correlator: extract_ms2_spectra.                   *)
(*                                                                         *)
(* A raw spectrum is [ms_level, precursor_mz, scan_time, peaks]:           *)
(* precursor_mz is None when the spectrum has no precursor, scan_time is   *)
(* in minutes and None when the attribute is missing, peaks is a sequence  *)
(* of <<mz, intensity>>.  The reader is a lazy stream: the loop draws the  *)
(* next spectrum when it asks for it.                                      *)
(***************************************************************************)
IntensityVals == {DEFAULT_MIN_INTENSITY - 1, DEFAULT_MIN_INTENSITY}

\* Peak lists with ascending m/z (peak j has m/z j) and any intensities.
PeakLists ==
    {[j \in DOMAIN p |-> <<j, p[j]>>] : p \in SeqsUpTo(IntensityVals, MaxPeaks)}

\* Spectra the loop looks into (any precursor with one peak at the
\* threshold, or any peak list with one precursor), and one spectrum of each
\* kind it skips at once (another ms level, no precursor, no scan time).
RawSpectra ==
    [ms_level : {2}, precursor_mz : {0, MaxMz}, scan_time : {0, 1},
     peaks : {<<<<1, DEFAULT_MIN_INTENSITY>>>>}]
    \cup [ms_level : {2}, precursor_mz : {0}, scan_time : {0}, peaks : PeakLists]
    \cup {[ms_level |-> 1, precursor_mz |-> None, scan_time |-> 0, peaks |-> <<>>],
          [ms_level |-> 2, precursor_mz |-> None, scan_time |-> 0,
           peaks |-> <<<<1, DEFAULT_MIN_INTENSITY>>>>],
          [ms_level |-> 2, precursor_mz |-> 0, scan_time |-> None,
           peaks |-> <<<<1, DEFAULT_MIN_INTENSITY>>>>]}

\* if intensity > min_intensity   (a peak at the threshold is lost)
keeps_peak_above(peak, min_int) == peak[2] > min_int

\* if intensity >= min_intensity
keeps_peak(peak, min_int) == peak[2] >= min_int

\* peaks = [(float(mz), float(intensity)) for ... if intensity >= min_intensity]
filter_peaks(peaks, min_int) == SelectSeq(peaks, LAMBDA q : keeps_peak(q, min_int))

\* precursor_rt = spectrum.scan_time[0] * 60
precursor_rt(spectrum) == spectrum.scan_time * SECONDS_PER_MINUTE

\* if precursor_mz is None or precursor_rt is None: continue
has_precursor(spectrum) ==
    spectrum.precursor_mz # None /\ spectrum.scan_time # None

\* The spectrum reaches the locator although no peak survived.
reaches_locator_unfiltered(spectrum, min_int) ==
    spectrum.ms_level = 2 /\ has_precursor(spectrum)

\* The spectrum gets as far as the call of find_matching_xcms_peak.
reaches_locator(spectrum, min_int) ==
    /\ spectrum.ms_level = 2
    /\ has_precursor(spectrum)
    /\ Len(filter_peaks(spectrum.peaks, min_int)) # 0

\* "n_peaks": len(spectrum.peaks): the peaks are counted before the filter
spectrum_dict_raw_count(spectrum, peaks, peak) ==
    [feature_name |-> peak.name,
     precursor_mz |-> spectrum.precursor_mz,
     rt |-> precursor_rt(spectrum),
     mz |-> [j \in DOMAIN peaks |-> peaks[j][1]],
     intensities |-> [j \in DOMAIN peaks |-> peaks[j][2]],
     n_peaks |-> Len(spectrum.peaks),
     matched_xcms_peak |-> peak.name]

\* spectrum_dict = {"feature_name": matched_peak["name"], ...}
spectrum_dict(spectrum, peaks, peak) ==
    [feature_name |-> peak.name,
     precursor_mz |-> spectrum.precursor_mz,
     rt |-> precursor_rt(spectrum),
     mz |-> [j \in DOMAIN peaks |-> peaks[j][1]],
     intensities |-> [j \in DOMAIN peaks |-> peaks[j][2]],
     n_peaks |-> Len(peaks),
     matched_xcms_peak |-> peak.name]

\* Small feature tables for the extraction: rows named in row order.
ExtractTables ==
    {[i \in DOMAIN t |-> [name |-> FeatureNames[i], mz |-> t[i], rt |-> DEFAULT_RT_TOLERANCE]] :
        t \in SeqsUpTo({0, MaxMz - 1}, MaxFeatures)}

\* The default tolerances, another pair, and a zero m/z tolerance.
TolerancePairs ==
    {<<DEFAULT_MZ_TOLERANCE, DEFAULT_RT_TOLERANCE>>, <<1, 2 * DEFAULT_RT_TOLERANCE>>,
     <<0, DEFAULT_RT_TOLERANCE>>}

InitExtract ==
    /\ xcms_peaks \in ExtractTables
    /\ \E tol \in TolerancePairs : mz_tolerance = tol[1] /\ rt_tolerance = tol[2]
    /\ min_intensity \in {0, DEFAULT_MIN_INTENSITY}
    /\ precursor = [mz |-> 0, rt |-> 0]
    /\ matched_peak = None
    /\ run = <<>>
    /\ ms2_spectra = <<>>
    /\ locator_calls = <<>>
    /\ CountIdle
    /\ WorkflowIdle
    /\ ConfidenceIdle
    /\ SummaryIdle
    /\ LoadIdle
    /\ pc = "extract_ms2_spectra"
    /\ BroadcastIdle

\* for spectrum in run: the reader yields one more spectrum
Reads(spectrum) ==
    /\ pc = "extract_ms2_spectra"
    /\ Len(run) < MaxSpectra
    /\ run' = Append(run, spectrum)
    /\ UNCHANGED outsideExtract

\* if spectrum.ms_level == 2: (otherwise nothing is done)
SkipOtherLevel ==
    \E spectrum \in RawSpectra :
        /\ Reads(spectrum)
        /\ spectrum.ms_level # 2
        /\ UNCHANGED <<cfgVars, locVars, ms2_spectra, locator_calls, pc>>

\* if precursor_mz is None or precursor_rt is None: continue
SkipNoPrecursor ==
    \E spectrum \in RawSpectra :
        /\ Reads(spectrum)
        /\ spectrum.ms_level = 2
        /\ ~has_precursor(spectrum)
        /\ UNCHANGED <<cfgVars, locVars, ms2_spectra, locator_calls, pc>>

\* if len(peaks) == 0: continue
SkipNoPeaks ==
    \E spectrum \in RawSpectra :
        /\ Reads(spectrum)
        /\ spectrum.ms_level = 2
        /\ has_precursor(spectrum)
        /\ Len(filter_peaks(spectrum.peaks, min_intensity)) = 0
        /\ UNCHANGED <<cfgVars, locVars, ms2_spectra, locator_calls, pc>>

\* matched_peak = find_matching_xcms_peak(...) for the spectrum just read
CallsLocator(spectrum) ==
    /\ Reads(spectrum)
    /\ reaches_locator(spectrum, min_intensity)
    /\ precursor' = [mz |-> spectrum.precursor_mz, rt |-> precursor_rt(spectrum)]
    /\ matched_peak' = find_matching_xcms_peak(xcms_peaks, spectrum.precursor_mz,
                                               precursor_rt(spectrum),
                                               mz_tolerance, rt_tolerance)
    /\ locator_calls' = Append(locator_calls, Len(run) + 1)

\* if matched_peak: ms2_spectra.append(spectrum_dict)
KeepMatched ==
    \E spectrum \in RawSpectra :
        /\ CallsLocator(spectrum)
        /\ matched_peak' \in 1..Len(xcms_peaks)
        /\ ms2_spectra' = Append(ms2_spectra,
              spectrum_dict(spectrum, filter_peaks(spectrum.peaks, min_intensity),
                            xcms_peaks[matched_peak']))
        /\ UNCHANGED <<cfgVars, pc>>

\* matched_peak is None: the spectrum is dropped
DropUnmatched ==
    \E spectrum \in RawSpectra :
        /\ CallsLocator(spectrum)
        /\ matched_peak' = None
        /\ UNCHANGED <<cfgVars, ms2_spectra, pc>>

\* the locator raises; nothing in extract_ms2_spectra catches it
ExtractRaises ==
    \E spectrum \in RawSpectra :
        /\ CallsLocator(spectrum)
        /\ matched_peak' = ZeroDivisionError
        /\ pc' = "raised"
        /\ UNCHANGED <<cfgVars, ms2_spectra>>

\* the reader is exhausted: return ms2_spectra
ExtractReturns ==
    /\ pc = "extract_ms2_spectra"
    /\ pc' = "returned"
    /\ UNCHANGED <<cfgVars, locVars, extVars, outsideExtract>>

NextExtract ==
    \/ SkipOtherLevel
    \/ SkipNoPrecursor
    \/ SkipNoPeaks
    \/ KeepMatched
    \/ DropUnmatched
    \/ ExtractRaises
    \/ ExtractReturns

SpecExtract == InitExtract /\ [][NextExtract]_vars

\* The index the locator returns for a raw spectrum's precursor.
LocatedFor(s) ==
    find_matching_xcms_peak(xcms_peaks, s.precursor_mz, s.scan_time * SECONDS_PER_MINUTE,
                            mz_tolerance, rt_tolerance)

\* A level-2 spectrum with precursor m/z and retention time, a peak of
\* intensity >= min_intensity, and a feature returned by the locator.
Qualifies(s) ==
    /\ s.ms_level = 2
    /\ s.precursor_mz # None
    /\ s.scan_time # None
    /\ \E j \in DOMAIN s.peaks : s.peaks[j][2] >= min_intensity
    /\ LocatedFor(s) \in 1..Len(xcms_peaks)

\* The query spectrum a qualifying raw spectrum gives: its precursor, its
\* peaks of intensity >= min_intensity, and the located feature's name.
Tagged(s) ==
    LET kept == SelectSeq(s.peaks, LAMBDA q : q[2] >= min_intensity)
    IN  [feature_name |-> xcms_peaks[LocatedFor(s)].name,
         precursor_mz |-> s.precursor_mz,
         rt |-> s.scan_time * SECONDS_PER_MINUTE,
         mz |-> [j \in DOMAIN kept |-> kept[j][1]],
         intensities |-> [j \in DOMAIN kept |-> kept[j][2]]]

RECURSIVE ExpectedOutput(_)
ExpectedOutput(spectra) ==
    IF spectra = <<>> THEN <<>>
    ELSE LET s == spectra[Len(spectra)]
             before == ExpectedOutput(SubSeq(spectra, 1, Len(spectra) - 1))
         IN  IF Qualifies(s) THEN Append(before, Tagged(s)) ELSE before

\* C3: the output of extract_ms2_spectra is, in input order, the qualifying
\* spectra among those read, each tagged with the located feature's name;
\* every other spectrum leaves no output.
C3_OutputIsTheQualifyingSpectra ==
    pc # "raised" =>
        [i \in DOMAIN ms2_spectra |->
            [feature_name |-> ms2_spectra[i].feature_name,
             precursor_mz |-> ms2_spectra[i].precursor_mz,
             rt |-> ms2_spectra[i].rt,
             mz |-> ms2_spectra[i].mz,
             intensities |-> ms2_spectra[i].intensities]] = ExpectedOutput(run)

\* The extraction returned after two spectra reached the locator: the first
\* found no feature and was dropped, the second was kept and tagged.
C3_Witness ==
    /\ pc = "returned"
    /\ locator_calls = <<1, 2>>
    /\ Len(ms2_spectra) = 1
    /\ ms2_spectra[1].precursor_mz = run[2].precursor_mz
    /\ run[1].precursor_mz # run[2].precursor_mz

\* C4: the locator is never called for a spectrum all of whose peaks are
\* below min_intensity.
C4_NoLocatorCallWithoutSurvivingPeak ==
    \A k \in DOMAIN locator_calls :
        \E j \in DOMAIN run[locator_calls[k]].peaks :
            run[locator_calls[k]].peaks[j][2] >= min_intensity

\* A spectrum with peaks, all below min_intensity, was read first, and the
\* locator was called for the second spectrum only.
C4_Witness ==
    /\ Len(run) = 2
    /\ Len(run[1].peaks) > 0
    /\ run[1].ms_level = 2 /\ run[1].precursor_mz # None /\ run[1].scan_time # None
    /\ \A j \in DOMAIN run[1].peaks : run[1].peaks[j][2] < min_intensity
    /\ locator_calls = <<2>>

(***************************************************************************)
(* Similarity Engine: count_matched_peaks.                                 *)
(***************************************************************************)
\* if j in used_indices: continue   (left out: a library peak is never taken)
already_used_never(j, used_indices) == FALSE

\* if j in used_indices: continue
already_used(j, used_indices) == j \in used_indices

\* for j, mz_val2 in enumerate(mz2): the first index from j on that is not
\* used and within the tolerance of mz_val, 0 when the loop ends without break
RECURSIVE first_free_match(_, _, _, _, _)
first_free_match(mz_val, peaks2, j, used_indices, tol) ==
    IF j > Len(peaks2) THEN 0
    ELSE IF ~already_used(j, used_indices) /\ Abs(mz_val - peaks2[j]) <= tol THEN j
    ELSE first_free_match(mz_val, peaks2, j + 1, used_indices, tol)

\* for mz_val in mz1: ... from the i-th peak on
RECURSIVE count_from(_, _, _, _, _, _)
count_from(peaks1, i, peaks2, tol, count, used_indices) ==
    IF i > Len(peaks1) THEN count
    ELSE LET j == first_free_match(peaks1[i], peaks2, 1, used_indices, tol)
         IN  IF j = 0
             THEN count_from(peaks1, i + 1, peaks2, tol, count, used_indices)
             ELSE count_from(peaks1, i + 1, peaks2, tol, count + 1, used_indices \cup {j})

count_matched_peaks(peaks1, peaks2, tol) == count_from(peaks1, 1, peaks2, tol, 0, {})

\* Two m/z lists in any order and any tolerance.
InitCount ==
    /\ mz1 \in SeqsUpTo(MzVals, MaxPeaks)
    /\ mz2 \in SeqsUpTo(MzVals, MaxPeaks)
    /\ mz_tolerance \in MzToleranceVals
    /\ matched = 0
    /\ LocatorIdle
    /\ ExtractIdle
    /\ WorkflowIdle
    /\ ConfidenceIdle
    /\ SummaryIdle
    /\ LoadIdle
    /\ pc = "count_matched_peaks"
    /\ BroadcastIdle

CountMatchedPeaks ==
    /\ pc = "count_matched_peaks"
    /\ pc' = "returned"
    /\ matched' = count_matched_peaks(mz1, mz2, mz_tolerance)
    /\ UNCHANGED <<mz1, mz2, mz_tolerance, outsideCount>>

NextCount == CountMatchedPeaks

SpecCount == InitCount /\ [][NextCount]_vars

\* C5: count_matched_peaks returns a value between 0 and the smaller of the
\* two numbers of peaks.
C5_CountWithinBounds ==
    pc = "returned" => (0 <= matched /\ matched <= Min(Len(mz1), Len(mz2)))

\* Two query peaks are both within the tolerance of the only library peak,
\* and one match was counted.
C5_Witness ==
    /\ pc = "returned"
    /\ Len(mz1) = 2 /\ Len(mz2) = 1
    /\ \A i \in 1..2 : Abs(mz1[i] - mz2[1]) <= mz_tolerance
    /\ matched = 1

Permutations(seq) ==
    {[i \in DOMAIN seq |-> seq[f[i]]] :
        f \in {g \in [DOMAIN seq -> DOMAIN seq] : \A a, b \in DOMAIN seq : a # b => g[a] # g[b]}}

LibDefaultIds == <<"lib_0", "lib_1", "lib_2", "lib_3">>
FeatureDefaultNames == <<"Feature_0", "Feature_1", "Feature_2", "Feature_3">>

\* if score is None or score[0] < min_score: continue
discarded(score, min) == score = None \/ score < min

\* match_dict = {...} for library spectrum lib and the query of index i
match_dict(query, i, lib, score, algo, tol) ==
    [library_id |-> IF lib.spectrum_id # Missing THEN lib.spectrum_id
                    ELSE LibDefaultIds[i + 1],
     compound_name |-> IF lib.compound_name # Missing THEN lib.compound_name
                       ELSE IF lib.name # Missing THEN lib.name ELSE "Unknown",
     score |-> score,
     algorithm |-> algo,
     matched_peaks |-> count_matched_peaks(query.mz, lib.mz, tol),
     total_peaks |-> Len(query.mz)]

\* An except around the whole loop: a pair that raises ends the query's loop.
after_raise_leave(library, k) == Len(library) + 1

\* except Exception as e: ... continue   (the loop goes on with the next
\* library spectrum)
after_raise(library, k) == k + 1

\* for lib_spectrum in library_spectra: ... from the k-th spectrum on
RECURSIVE score_library(_, _, _, _, _, _, _, _, _)
score_library(query, i, library, k, pair, algo, tol, min, matches) ==
    IF k > Len(library) THEN matches
    ELSE LET score == pair[<<query.mz, library[k].mz>>]
         IN  IF score = PairRaises
             THEN score_library(query, i, library, after_raise(library, k), pair, algo, tol,
                                min, matches)
             ELSE IF discarded(score, min)
             THEN score_library(query, i, library, k + 1, pair, algo, tol, min, matches)
             ELSE score_library(query, i, library, k + 1, pair, algo, tol, min,
                                Append(matches, match_dict(query, i, library[k], score,
                                                           algo, tol)))

\* A sort that puts a match before the earlier matches of the same score.
insert_before_equal(sorted, m) ==
    LET ahead == Cardinality({j \in DOMAIN sorted : sorted[j].score > m.score})
    IN  SubSeq(sorted, 1, ahead) \o <<m>> \o SubSeq(sorted, ahead + 1, Len(sorted))

\* The place list.sort(reverse=True) gives a match among the matches before
\* it in the list: after those of a higher or the same score (the sort is
\* stable).
insert_by_score(sorted, m) ==
    LET ahead == Cardinality({j \in DOMAIN sorted : sorted[j].score >= m.score})
    IN  SubSeq(sorted, 1, ahead) \o <<m>> \o SubSeq(sorted, ahead + 1, Len(sorted))

\* matches.sort(key=lambda x: x["score"], reverse=True)
RECURSIVE sort_by_score(_)
sort_by_score(matches) ==
    IF matches = <<>> THEN <<>>
    ELSE insert_by_score(sort_by_score(SubSeq(matches, 1, Len(matches) - 1)),
                         matches[Len(matches)])

\* top_matches = matches[:top_n]
first_n(matches, n) == SubSeq(matches, 1, Min(n, Len(matches)))

\* "best_match": top_matches[0] if top_matches else {...}: an empty list
\* gets a match of score 0 instead of None
first_or_placeholder(matches) ==
    IF Len(matches) > 0 THEN matches[1]
    ELSE [library_id |-> "", compound_name |-> "Unknown", score |-> 0, algorithm |-> "",
          matched_peaks |-> 0, total_peaks |-> 0]

\* "best_match": top_matches[0] if top_matches else None
first_or_none(matches) == IF Len(matches) > 0 THEN matches[1] ELSE NoneValue

\* The entry match_with_traditional appends for the query of index i.
traditional_result(query, i, library, pair, algo, tol, min, n) ==
    LET matches == score_library(query, i, library, 1, pair, algo, tol, min, <<>>)
        top_matches == first_n(sort_by_score(matches), n)
    IN  [query_index |-> i,
         query_spectrum |-> [precursor_mz |-> query.precursor_mz,
                             retention_time |-> query.retention_time],
         matches |-> top_matches,
         best_match |-> first_or_none(top_matches)]

(***************************************************************************)
(* Similarity Engine: match_with_ms2query.  ms2library.match_spectrum      *)
(* belongs to the ms2query package: for one query it raises or returns a   *)
(* list of matches, of which the code reads the fields below.  Nothing in  *)
(* the code orders or cuts the list.                                       *)
(***************************************************************************)
\* match_dict = {...} for one returned match
ms2query_match_dict(query, match) ==
    [library_id |-> match.library_id,
     compound_name |-> match.compound_name,
     score |-> match.ms2query_score,
     algorithm |-> "ms2query",
     matched_peaks |-> match.matched_peaks,
     total_peaks |-> Len(query.mz)]

\* The entry appended for the query of index i when the library returned
\* the list returned.
ms2query_result(query, i, returned) ==
    LET match_results == [j \in DOMAIN returned |-> ms2query_match_dict(query, returned[j])]
    IN  [query_index |-> i,
         query_spectrum |-> [precursor_mz |-> query.precursor_mz,
                             retention_time |-> query.retention_time],
         matches |-> match_results,
         best_match |-> first_or_none(match_results)]

\* The entry appended when matching the query raised.
ms2query_error(i) == [query_index |-> i, error |-> "Exception", matches |-> <<>>]

(***************************************************************************)
(* Result Aggregator: process_matching_results.  A confidence is an exact  *)
(* fraction <<numerator, denominator>> in lowest terms.                    *)
(***************************************************************************)
\* dict.get(key, default); a dict without keys is <<>>
Get(dict, key, default) == IF key \in DOMAIN dict THEN dict[key] ELSE default

RECURSIVE GCD(_, _)
GCD(a, b) == IF b = 0 THEN a ELSE GCD(b, a % b)

\* max(0.0, num / den): the upper limit is missing
clamp_below(num, den) ==
    IF num <= 0 THEN <<0, 1>>
    ELSE <<num \div GCD(num, den), den \div GCD(num, den)>>

\* min(1.0, max(0.0, num / den)) for den > 0
clamp_unit(num, den) ==
    IF num <= 0 THEN <<0, 1>>
    ELSE IF num >= den THEN <<1, 1>>
    ELSE <<num \div GCD(num, den), den \div GCD(num, den)>>

\* sum(m.get("score", 0.0) for m in matches[:n])
RECURSIVE sum_scores(_, _)
sum_scores(matches, n) ==
    IF n = 0 THEN 0 ELSE Get(matches[n], "score", 0) + sum_scores(matches, n - 1)

\* for peak in peaks: if peak.get("name") == peak_name: return peak
get_peak_info(peaks, peak_name) ==
    IF \E k \in DOMAIN peaks : peaks[k].name = peak_name
    THEN peaks[CHOOSE k \in DOMAIN peaks :
                   /\ peaks[k].name = peak_name
                   /\ \A j \in 1..(k - 1) : peaks[j].name # peak_name]
    ELSE NoneValue

\* for peak in peaks: if both differences are within the tolerances:
\* return peak
find_peak_by_mz_rt(peaks, mz, rt, mz_tol, rt_tol) ==
    LET near(k) == within_tolerance(peaks[k], mz, rt, mz_tol, rt_tol)
    IN  IF \E k \in DOMAIN peaks : near(k)
        THEN peaks[CHOOSE k \in DOMAIN peaks : near(k) /\ \A j \in 1..(k - 1) : ~near(j)]
        ELSE NoneValue

\* The score is s / 10.  With n top scores of sum top_sum the boosted base
\* score is (2 n s + min(4 n, top_sum - n s)) / (20 n), and the peak ratio
\* multiplies it by (total + matched) / (2 total), or by 1/2 without peaks.
calculate_confidence_score(matches, best_match) ==
    IF best_match = NoneValue \/ DOMAIN best_match = {} THEN <<0, 1>>
    ELSE LET s == Get(best_match, "score", 0)
             n == IF Len(matches) > 1 THEN Min(3, Len(matches)) ELSE 1
             base_score == IF Len(matches) > 1
                           THEN 2 * n * s + Min(4 * n, sum_scores(matches, n) - n * s)
                           ELSE 2 * n * s
             matched_peaks == Get(best_match, "matched_peaks", 0)
             total_peaks == Get(best_match, "total_peaks", 1)
         IN  IF total_peaks > 0
             THEN clamp_unit(base_score * (total_peaks + matched_peaks),
                             20 * n * 2 * total_peaks)
             ELSE clamp_unit(base_score, 20 * n * 2)

\* combined_result for one entry of matching_results
combined_result(peaks, match_result, algo) ==
    LET query_index == Get(match_result, "query_index", -1)
        query_spectrum == Get(match_result, "query_spectrum", <<>>)
        matches == Get(match_result, "matches", <<>>)
        best_match == Get(match_result, "best_match", NoneValue)
        feature_name == Get(query_spectrum, "feature_name",
                            IF query_index = -1 THEN "Feature_-1"
                            ELSE FeatureDefaultNames[query_index + 1])
        by_name == get_peak_info(peaks, feature_name)
        precursor_mz == Get(query_spectrum, "precursor_mz", None)
        rt == Get(query_spectrum, "retention_time", None)
        \* if precursor_mz and rt: None and 0.0 are both false
        xcms_peak == IF by_name = NoneValue /\ precursor_mz \notin {None, 0}
                        /\ rt \notin {None, 0}
                     THEN find_peak_by_mz_rt(peaks, precursor_mz, rt,
                                             DEFAULT_MZ_TOLERANCE, DEFAULT_RT_TOLERANCE)
                     ELSE by_name
    IN  [feature_name |-> feature_name,
         xcms_peak |-> xcms_peak,
         precursor_mz |-> precursor_mz,
         retention_time |-> rt,
         algorithm |-> algo,
         matches |-> matches,
         best_match |-> best_match,
         match_count |-> Len(matches),
         confidence_score |-> calculate_confidence_score(matches, best_match)]

\* if not matches: continue   (a query without candidates gets no result)
process_matched_only(peaks, results, algo) ==
    LET kept == SelectSeq(results, LAMBDA r : Get(r, "matches", <<>>) # <<>>)
    IN  [k \in DOMAIN kept |-> combined_result(peaks, kept[k], algo)]

process_matching_results(peaks, results, algo) ==
    [k \in DOMAIN results |-> combined_result(peaks, results[k], algo)]

(***************************************************************************)
(* Matching workflow: match_spectra from the dispatch on the algorithm to  *)
(* the response.                                                           *)
(***************************************************************************)
TraditionalAlgorithms == {"dot_product", "cosine", "modified_cosine"}
Algorithms == {"ms2query"} \cup TraditionalAlgorithms \cup {"euclidean"}
ScoreVals == {5, 10}
Outcomes == {PairRaises, None} \cup ScoreVals
MinScoreVals == {0, 10}
TopNVals == {1, 2}

\* Query spectra as convert_to_matchms_spectrum builds them.
QueryKinds ==
    {[precursor_mz |-> 0, retention_time |-> 0, feature_name |-> "F1", mz |-> <<1>>],
     [precursor_mz |-> 1, retention_time |-> 60, feature_name |-> "F2", mz |-> <<0, 1>>]}

\* Library spectra: with every key, without an id and a compound_name, and
\* with nothing but peaks (the same peaks as the first).
LibraryKinds ==
    {[spectrum_id |-> "L1", compound_name |-> "A", name |-> "a", mz |-> <<1>>],
     [spectrum_id |-> Missing, compound_name |-> Missing, name |-> "b", mz |-> <<1, 2>>],
     [spectrum_id |-> Missing, compound_name |-> Missing, name |-> Missing, mz |-> <<1>>]}

\* What the ms2query library may return for a query.
ReturnedMatches ==
    [library_id : {"M1", "M2"}, compound_name : {"m"}, ms2query_score : ScoreVals,
     matched_peaks : {1}]

DistinctSeqs(S, n) == {q \in SeqsUpTo(S, n) : \A i, j \in DOMAIN q : i # j => q[i] # q[j]}
PeakListsOf(S) == {x.mz : x \in S}
NoPairs == [p \in PeakListsOf(QueryKinds) \X PeakListsOf(LibraryKinds) |-> None]

\* The feature table of the run: the rows the queries were tagged from.
WorkflowTable ==
    <<[name |-> "F1", mz |-> 0, rt |-> 0], [name |-> "F2", mz |-> 1, rt |-> 60]>>

\* A run reads the library and the scores only in match_with_traditional.
ReachesTraditional ==
    \/ requested_algorithm \in TraditionalAlgorithms
    \/ requested_algorithm = "ms2query" /\ ~(ms2query_ready.available /\ ms2query_ready.library_loads)

Init ==
    /\ xcms_peaks = WorkflowTable
    /\ mz_tolerance = DEFAULT_MZ_TOLERANCE
    /\ rt_tolerance = DEFAULT_RT_TOLERANCE
    /\ precursor = [mz |-> 0, rt |-> 0]
    /\ matched_peak = None
    /\ ExtractIdle
    /\ CountIdle
    /\ ConfidenceIdle
    /\ SummaryIdle
    /\ LoadIdle
    /\ requested_algorithm \in Algorithms
    /\ algorithm = requested_algorithm
    /\ ms2query_ready \in
          IF requested_algorithm = "ms2query"
          THEN {[available |-> FALSE, library_loads |-> FALSE],
                [available |-> TRUE, library_loads |-> FALSE],
                [available |-> TRUE, library_loads |-> TRUE]}
          ELSE {[available |-> FALSE, library_loads |-> FALSE]}
    /\ query_spectra \in DistinctSeqs(QueryKinds, MaxSpectra)
    /\ top_n \in TopNVals
    /\ library_spectra \in
          IF ReachesTraditional THEN DistinctSeqs(LibraryKinds, MaxLibrary) ELSE {<<>>}
    /\ similarity \in
          IF ReachesTraditional
          THEN [PeakListsOf(QueryKinds) \X PeakListsOf(LibraryKinds) -> Outcomes]
          ELSE {NoPairs}
    /\ min_score \in IF ReachesTraditional THEN MinScoreVals ELSE {0}
    /\ matching_results = <<>>
    /\ processed_results = <<>>
    /\ response = [status |-> "pending"]
    /\ pc = "match_spectra"
    /\ BroadcastIdle

\* if algorithm == "ms2query": ... if is_ms2query_available(): and the
\* library of match_with_ms2query loads
DispatchMs2query ==
    /\ pc = "match_spectra"
    /\ algorithm = "ms2query"
    /\ ms2query_ready.available
    /\ ms2query_ready.library_loads
    /\ pc' = "match_with_ms2query"
    /\ UNCHANGED <<mz_tolerance, inVars, wfVars, outsideWorkflow>>

\* else: raise ImportError("MS2Query not available"), caught by the except
Ms2queryUnavailable ==
    /\ pc = "match_spectra"
    /\ algorithm = "ms2query"
    /\ ~ms2query_ready.available
    /\ pc' = "fallback"
    /\ UNCHANGED <<mz_tolerance, inVars, wfVars, outsideWorkflow>>

\* match_with_ms2query raises ValueError("Error loading MS2Query library"),
\* caught by the except
Ms2queryLibraryFails ==
    /\ pc = "match_spectra"
    /\ algorithm = "ms2query"
    /\ ms2query_ready.available
    /\ ~ms2query_ready.library_loads
    /\ pc' = "fallback"
    /\ UNCHANGED <<mz_tolerance, inVars, wfVars, outsideWorkflow>>

\* else: matching_results = match_with_traditional(..., algorithm=algorithm)
DispatchTraditional ==
    /\ pc = "match_spectra"
    /\ algorithm \in TraditionalAlgorithms
    /\ pc' = "match_with_traditional"
    /\ UNCHANGED <<mz_tolerance, inVars, wfVars, outsideWorkflow>>

\* raise ValueError(f"Unknown algorithm: {algorithm}"), which match_spectra
\* turns into HTTPException(status_code=500)
TraditionalRejectsAlgorithm ==
    /\ pc = "match_spectra"
    /\ algorithm \notin TraditionalAlgorithms \cup {"ms2query"}
    /\ response' = [status |-> "error", status_code |-> 500]
    /\ pc' = "raised"
    /\ UNCHANGED <<mz_tolerance, inVars, algorithm, matching_results, processed_results,
                   outsideWorkflow>>

\* One turn of match_with_traditional's loop over the queries.  The call of
\* the except branch passes algorithm="cosine".
MatchQueryTraditional ==
    /\ pc \in {"match_with_traditional", "fallback"}
    /\ Len(matching_results) < Len(query_spectra)
    /\ LET i == Len(matching_results)
       IN  matching_results' =
               Append(matching_results,
                      traditional_result(query_spectra[i + 1], i, library_spectra, similarity,
                                         IF pc = "fallback" THEN "cosine" ELSE algorithm,
                                         mz_tolerance, min_score, top_n))
    /\ UNCHANGED <<mz_tolerance, inVars, algorithm, processed_results, response, pc,
                   outsideWorkflow>>

\* return results, to the else branch
TraditionalReturns ==
    /\ pc = "match_with_traditional"
    /\ Len(matching_results) = Len(query_spectra)
    /\ pc' = "process_matching_results"
    /\ UNCHANGED <<mz_tolerance, inVars, wfVars, outsideWorkflow>>

\* the except branch leaves the algorithm name as requested
algorithm_as_requested(requested) == requested

\* algorithm = "cosine"  # Update algorithm name for results
algorithm_after_fallback(requested) == "cosine"

\* return results, to the except branch
FallbackReturns ==
    /\ pc = "fallback"
    /\ Len(matching_results) = Len(query_spectra)
    /\ algorithm' = algorithm_after_fallback(algorithm)
    /\ pc' = "process_matching_results"
    /\ UNCHANGED <<mz_tolerance, inVars, matching_results, processed_results, response,
                   outsideWorkflow>>

\* One turn of match_with_ms2query's loop: the library returns a list of at
\* most number_of_results=top_n matches.
MatchQueryMs2query ==
    /\ pc = "match_with_ms2query"
    /\ Len(matching_results) < Len(query_spectra)
    /\ \E returned \in SeqsUpTo(ReturnedMatches, Min(top_n, MaxReturned)) :
           LET i == Len(matching_results)
           IN  matching_results' =
                   Append(matching_results, ms2query_result(query_spectra[i + 1], i, returned))
    /\ UNCHANGED <<mz_tolerance, inVars, algorithm, processed_results, response, pc,
                   outsideWorkflow>>

\* One turn of the loop in which the library raises.
Ms2queryQueryFails ==
    /\ pc = "match_with_ms2query"
    /\ Len(matching_results) < Len(query_spectra)
    /\ matching_results' = Append(matching_results, ms2query_error(Len(matching_results)))
    /\ UNCHANGED <<mz_tolerance, inVars, algorithm, processed_results, response, pc,
                   outsideWorkflow>>

\* return results, to the try branch
Ms2queryReturns ==
    /\ pc = "match_with_ms2query"
    /\ Len(matching_results) = Len(query_spectra)
    /\ pc' = "process_matching_results"
    /\ UNCHANGED <<mz_tolerance, inVars, wfVars, outsideWorkflow>>

\* Step 4 with an aggregator that takes the best match out of each
\* candidate list it is handed (matches.pop(0)).
ProcessMatchingResultsPopping ==
    /\ pc = "process_matching_results"
    /\ processed_results' = process_matching_results(xcms_peaks, matching_results, algorithm)
    /\ matching_results' =
           [k \in DOMAIN matching_results |->
               [matching_results[k] EXCEPT
                   !.matches = IF @ = <<>> THEN @ ELSE SubSeq(@, 2, Len(@))]]
    /\ response' = [status |-> "ok",
                    matching |-> [algorithm |-> algorithm,
                                  matches |-> matching_results',
                                  processed_results |-> processed_results']]
    /\ pc' = "returned"
    /\ UNCHANGED <<mz_tolerance, inVars, algorithm, outsideWorkflow>>

\* Step 4 and the return of match_spectra.
ProcessMatchingResults ==
    /\ pc = "process_matching_results"
    /\ processed_results' = process_matching_results(xcms_peaks, matching_results, algorithm)
    /\ response' = [status |-> "ok",
                    matching |-> [algorithm |-> algorithm,
                                  matches |-> matching_results,
                                  processed_results |-> processed_results']]
    /\ pc' = "returned"
    /\ UNCHANGED <<mz_tolerance, inVars, algorithm, matching_results, outsideWorkflow>>

Next ==
    \/ DispatchMs2query
    \/ Ms2queryUnavailable
    \/ Ms2queryLibraryFails
    \/ DispatchTraditional
    \/ TraditionalRejectsAlgorithm
    \/ MatchQueryTraditional
    \/ TraditionalReturns
    \/ FallbackReturns
    \/ MatchQueryMs2query
    \/ Ms2queryQueryFails
    \/ Ms2queryReturns
    \/ ProcessMatchingResults

Spec == Init /\ [][Next]_vars

(***************************************************************************)
(* Claims on the similarity engine and the workflow.                       *)
(***************************************************************************)
NonIncreasing(matches) ==
    \A j \in 1..(Len(matches) - 1) : matches[j].score >= matches[j + 1].score

\* C7: in every query result of either strategy the candidate list is in
\* non-increasing score order and has at most top_n entries.
C7_CandidatesSortedAndCut ==
    \A k \in DOMAIN matching_results :
        /\ NonIncreasing(matching_results[k].matches)
        /\ Len(matching_results[k].matches) <= top_n

\* The pair score of the k-th query and the j-th library spectrum.
PairScore(k, j) == similarity[<<query_spectra[k].mz, library_spectra[j].mz>>]
\* The library spectra of a score that is at least min_score.
Qualifying(k) ==
    {j \in DOMAIN library_spectra : PairScore(k, j) \in ScoreVals /\ PairScore(k, j) >= min_score}
\* j comes before h: a higher score, or the same score and earlier in the library.
Before(k, j, h) ==
    \/ PairScore(k, j) > PairScore(k, h)
    \/ PairScore(k, j) = PairScore(k, h) /\ j < h
\* The place of j among the qualifying spectra.
Rank(k, j) == 1 + Cardinality({h \in Qualifying(k) : Before(k, h, j)})
\* The name a library spectrum is reported under; each kind has its own.
ReportedName(lib) ==
    IF lib.compound_name # Missing THEN lib.compound_name
    ELSE IF lib.name # Missing THEN lib.name ELSE "Unknown"

\* C8: the candidate list match_with_traditional returns for a query is the
\* first top_n of the library spectra scoring at least min_score, in
\* descending score order with equal scores in library order.
C8_TraditionalReturnsStableTopN ==
    ReachesTraditional =>
        \A k \in DOMAIN matching_results :
            LET matches == matching_results[k].matches
            IN  /\ Len(matches) = Min(top_n, Cardinality(Qualifying(k)))
                /\ \A j \in Qualifying(k) :
                       Rank(k, j) <= top_n =>
                           /\ matches[Rank(k, j)].score = PairScore(k, j)
                           /\ matches[Rank(k, j)].compound_name =
                                  ReportedName(library_spectra[j])

\* A run in which one query has more qualifying spectra than top_n, two of
\* them of the same score, and another query has a spectrum under min_score
\* and two returned candidates of the same score.
C8_Witness ==
    /\ pc = "returned"
    /\ ReachesTraditional
    /\ \E k \in DOMAIN matching_results :
           /\ Cardinality(Qualifying(k)) > top_n
           /\ \E j, h \in Qualifying(k) : j # h /\ PairScore(k, j) = PairScore(k, h)
    /\ \E k \in DOMAIN matching_results :
           /\ \E j \in DOMAIN library_spectra :
                  PairScore(k, j) \in ScoreVals /\ PairScore(k, j) < min_score
           /\ Len(matching_results[k].matches) = 2
           /\ matching_results[k].matches[1].score = matching_results[k].matches[2].score

\* C9: best_match is the first candidate of a non-empty list and none exactly
\* when the list is empty, so no candidate scores higher than best_match.
C9_BestMatchIsFirstAndHighest ==
    \A k \in DOMAIN matching_results :
        LET matches == matching_results[k].matches
            best_match == Get(matching_results[k], "best_match", NoneValue)
        IN  /\ (matches = <<>>) <=> (best_match = NoneValue)
            /\ matches # <<>> =>
                   /\ best_match = matches[1]
                   /\ \A j \in DOMAIN matches : matches[j].score <= best_match.score

\* ms2query was requested and is not installed or cannot load its library.
Ms2queryUnavailableRun ==
    /\ requested_algorithm = "ms2query"
    /\ ~(ms2query_ready.available /\ ms2query_ready.library_loads)

\* C10: a run that asked for ms2query while it is unavailable does not fail:
\* it is at the dispatch, in the cosine matching of the except branch with
\* queries left or the return ahead, at the aggregation, or it has returned.
\* It returns one result per query, and the run, every annotated result and
\* every candidate report "cosine".
C10_FallbackReportsCosine ==
    Ms2queryUnavailableRun =>
        /\ pc # "raised"
        /\ pc \in {"match_spectra", "fallback", "process_matching_results", "returned"}
        /\ pc = "fallback" => Len(matching_results) <= Len(query_spectra)
        /\ pc = "fallback" =>
               \A k \in DOMAIN matching_results :
                   \A j \in DOMAIN matching_results[k].matches :
                       matching_results[k].matches[j].algorithm = "cosine"
        /\ pc = "returned" =>
               /\ response.status = "ok"
               /\ response.matching.algorithm = "cosine"
               /\ Len(response.matching.matches) = Len(query_spectra)
               /\ Len(response.matching.processed_results) = Len(query_spectra)
               /\ \A k \in DOMAIN response.matching.processed_results :
                      LET result == response.matching.processed_results[k]
                      IN  /\ result.algorithm = "cosine"
                          /\ \A j \in DOMAIN result.matches :
                                 result.matches[j].algorithm = "cosine"

\* A returned run in which the ms2query library could not be loaded and a
\* query has a candidate.
C10_Witness ==
    /\ pc = "returned"
    /\ requested_algorithm = "ms2query"
    /\ ms2query_ready.available
    /\ ~ms2query_ready.library_loads
    /\ \E k \in DOMAIN processed_results : processed_results[k].matches # <<>>

(***************************************************************************)
(* calculate_confidence_score on its own: any candidate list and any best  *)
(* match, whether or not a matcher could have produced them.               *)
(***************************************************************************)
\* Scores in tenths, some outside [0, 1].
ScoreInputs == {-5, 5, 10, 15}
MatchedPeaksInputs == {0, 1, 3}
TotalPeaksInputs == {0, 1, 2}
\* None, a dict without keys, a dict with the score only, and full dicts.
BestMatchInputs ==
    {NoneValue, <<>>} \cup [score : ScoreInputs]
        \cup [score : ScoreInputs, matched_peaks : MatchedPeaksInputs,
              total_peaks : TotalPeaksInputs]

InitConfidence ==
    /\ xcms_peaks = <<>>
    /\ mz_tolerance = DEFAULT_MZ_TOLERANCE
    /\ rt_tolerance = DEFAULT_RT_TOLERANCE
    /\ precursor = [mz |-> 0, rt |-> 0]
    /\ matched_peak = None
    /\ ExtractIdle
    /\ CountIdle
    /\ WorkflowIdle
    /\ SummaryIdle
    /\ LoadIdle
    /\ cand_matches \in SeqsUpTo([score : ScoreInputs], MaxMatches)
    /\ cand_best_match \in BestMatchInputs
    /\ confidence = <<0, 1>>
    /\ pc = "calculate_confidence_score"
    /\ BroadcastIdle

CalculateConfidenceScore ==
    /\ pc = "calculate_confidence_score"
    /\ confidence' = calculate_confidence_score(cand_matches, cand_best_match)
    /\ pc' = "returned"
    /\ UNCHANGED <<cand_matches, cand_best_match, sumVars, loadVars, outsideAggregator>>

NextConfidence == CalculateConfidenceScore

SpecConfidence == InitConfidence /\ [][NextConfidence]_vars

\* best_match is None (or a dict without keys, which "not best_match" treats alike)
NoBestMatch == cand_best_match = NoneValue \/ DOMAIN cand_best_match = {}

\* C11: whatever the candidates and the best match, the confidence returned is
\* in [0, 1], and it is exactly 0 when there is no best match.
C11_ConfidenceInUnitInterval ==
    pc = "returned" =>
        /\ confidence[2] > 0
        /\ 0 <= confidence[1]
        /\ confidence[1] <= confidence[2]
        /\ NoBestMatch => confidence = <<0, 1>>

\* A best match of score 1.5 with more matched peaks than peaks, cut to 1.
C11_Witness ==
    /\ pc = "returned"
    /\ ~NoBestMatch
    /\ cand_best_match.score > 10
    /\ "total_peaks" \in DOMAIN cand_best_match
    /\ cand_best_match.total_peaks > 0
    /\ cand_best_match.matched_peaks > cand_best_match.total_peaks
    /\ confidence = <<1, 1>>

Max(a, b) == IF a >= b THEN a ELSE b

\* clamp((base + boost) * (0.5 + 0.5 * matched / total)) with
\* boost = min(0.2, max(0, (avg_top3 - base) * 0.5)) for two candidates or
\* more and 0 otherwise: over the denominator 20 n * 2 total, n being the
\* number of top scores averaged.
FormulaConfidence ==
    LET s == cand_best_match.score
        n == Min(3, Len(cand_matches))
        top_sum == sum_scores(cand_matches, n)
        boost == IF Len(cand_matches) >= 2 THEN Min(4 * n, Max(0, top_sum - n * s)) ELSE 0
        num == (2 * n * s + boost) * (cand_best_match.total_peaks + cand_best_match.matched_peaks)
        den == 20 * n * 2 * cand_best_match.total_peaks
    IN  IF num <= 0 THEN <<0, 1>>
        ELSE IF num >= den THEN <<1, 1>>
        ELSE <<num \div GCD(num, den), den \div GCD(num, den)>>

\* Inputs as a matcher that sorts produces them: scores in [0, 1] in
\* non-increasing order, the best match first, matched peaks within the
\* query's peaks, at least one peak.
SortedMatcherOutput ==
    /\ cand_matches # <<>>
    /\ ~NoBestMatch
    /\ "total_peaks" \in DOMAIN cand_best_match
    /\ cand_best_match.score = cand_matches[1].score
    /\ \A j \in DOMAIN cand_matches : cand_matches[j].score \in 0..10
    /\ \A j \in 1..(Len(cand_matches) - 1) : cand_matches[j].score >= cand_matches[j + 1].score
    /\ cand_best_match.total_peaks >= 1
    /\ cand_best_match.matched_peaks <= cand_best_match.total_peaks

\* C12: with a best match, the confidence is the clamp of (base + boost) *
\* (0.5 + 0.5 * matched / total), where the boost is min(0.2, max(0, (average
\* of the top 3 scores - base) * 0.5)) for two candidates or more and 0
\* otherwise, so the boost is never negative.  Stated for sorted matcher
\* output.
C12_ConfidenceFollowsFormula ==
    (pc = "returned" /\ SortedMatcherOutput) => confidence = FormulaConfidence

(***************************************************************************)
(* Claims on the aggregation and on failures, in the workflow.             *)
(***************************************************************************)
\* C13: a query result with an empty candidate list, the entry of a query
\* whose matching raised included, is annotated with best_match None,
\* match_count 0 and confidence 0.
C13_NoCandidatesNoConfidence ==
    pc = "returned" =>
        \A k \in DOMAIN matching_results :
            matching_results[k].matches = <<>> =>
                /\ processed_results[k].best_match = NoneValue
                /\ processed_results[k].match_count = 0
                /\ processed_results[k].confidence_score = <<0, 1>>

\* A returned ms2query run with a query whose matching raised and a query
\* with candidates.
C13_Witness ==
    /\ pc = "returned"
    /\ \E k \in DOMAIN matching_results : "error" \in DOMAIN matching_results[k]
    /\ \E k \in DOMAIN processed_results : processed_results[k].match_count > 0

\* C14: every annotated result carries the feature name tagged on its query
\* spectrum, and its resolved feature is the feature table's entry of that
\* name.
C14_ResultKeepsTaggedFeature ==
    pc = "returned" =>
        \A k \in DOMAIN processed_results :
            /\ processed_results[k].feature_name = query_spectra[k].feature_name
            /\ processed_results[k].xcms_peak =
                   get_peak_info(xcms_peaks, query_spectra[k].feature_name)

\* The run is one of the two matchers' (the algorithm is not rejected).
MatcherRuns == requested_algorithm \in TraditionalAlgorithms \cup {"ms2query"}

\* C18: a pair that raises, or an ms2query query that raises, does not end
\* the run: the matcher returns one entry per query in query order, the
\* raising pair is not among the query's candidates, and every spectrum that
\* qualifies within the first top_n is.
C18_FailuresAreLocal ==
    MatcherRuns =>
        /\ pc # "raised"
        /\ Len(matching_results) <= Len(query_spectra)
        /\ pc \in {"process_matching_results", "returned"} =>
               Len(matching_results) = Len(query_spectra)
        /\ \A k \in DOMAIN matching_results : matching_results[k].query_index = k - 1
        /\ ReachesTraditional =>
               \A k \in DOMAIN matching_results : \A j \in DOMAIN library_spectra :
                   LET matches == matching_results[k].matches
                       name == ReportedName(library_spectra[j])
                   IN  /\ PairScore(k, j) = PairRaises =>
                              \A m \in DOMAIN matches : matches[m].compound_name # name
                       /\ (j \in Qualifying(k) /\ Rank(k, j) <= top_n) =>
                              \E m \in DOMAIN matches :
                                  /\ matches[m].compound_name = name
                                  /\ matches[m].score = PairScore(k, j)

\* A returned run in which a query has a pair that raised before a pair that
\* was scored and kept, and a later query has a candidate too.
C18_Witness ==
    /\ pc = "returned"
    /\ ReachesTraditional
    /\ Len(query_spectra) = 2
    /\ matching_results[2].matches # <<>>
    /\ \E j, h \in DOMAIN library_spectra :
           /\ j < h
           /\ PairScore(1, j) = PairRaises
           /\ h \in Qualifying(1)
           /\ \E m \in DOMAIN matching_results[1].matches :
                  matching_results[1].matches[m].compound_name =
                      ReportedName(library_spectra[h])

\* Every pair of the run raised.
EveryPairRaises ==
    /\ ReachesTraditional
    /\ query_spectra # <<>>
    /\ library_spectra # <<>>
    /\ \A k \in DOMAIN query_spectra : \A j \in DOMAIN library_spectra :
           PairScore(k, j) = PairRaises

\* C19: when scoring fails for every pair of the run, the workflow returns an
\* error, not a success with empty candidate lists.
C19_SystemicFailureIsAnError ==
    (EveryPairRaises /\ pc \in {"returned", "raised"}) => response.status = "error"

(***************************************************************************)
(* The aggregator's secondary lookup against the feature locator.          *)
(***************************************************************************)
\* C15: find_peak_by_mz_rt gives what find_matching_xcms_peak gives for the
\* same feature list, m/z, RT and tolerances: the nearest feature within both
\* bounds, or none.  Stated for positive tolerances, where the locator
\* returns.
C15_SecondaryLookupIsTheLocator ==
    (pc = "returned" /\ mz_tolerance > 0 /\ rt_tolerance > 0) =>
        find_peak_by_mz_rt(xcms_peaks, precursor.mz, precursor.rt, mz_tolerance, rt_tolerance)
            = IF matched_peak \in DOMAIN xcms_peaks THEN xcms_peaks[matched_peak]
              ELSE NoneValue

(***************************************************************************)
(* Result Aggregator: generate_summary_statistics.  Rates and means are    *)
(* exact fractions <<numerator, denominator>> in lowest terms.             *)
(***************************************************************************)
\* num / den in lowest terms, for den > 0
fraction(num, den) == <<num \div GCD(num, den), den \div GCD(num, den)>>

\* a + b
add_fractions(a, b) == fraction(a[1] * b[2] + b[1] * a[2], a[2] * b[2])

\* r.get("confidence_score", 0) > 0.7: a confidence of exactly 0.7 is not counted
is_high_confidence_strict(result) ==
    LET c == Get(result, "confidence_score", <<0, 1>>) IN 10 * c[1] > 7 * c[2]

\* r.get("confidence_score", 0) >= 0.7
is_high_confidence(result) ==
    LET c == Get(result, "confidence_score", <<0, 1>>) IN 10 * c[1] >= 7 * c[2]

\* if r.get("best_match"): None and a dict without keys are false
has_best_match(result) ==
    LET b == Get(result, "best_match", NoneValue) IN b # NoneValue /\ DOMAIN b # {}

\* if r.get("confidence_score"): a missing confidence and 0.0 are false
has_confidence(result) == Get(result, "confidence_score", <<0, 1>>)[1] # 0

\* scores = [r.get("confidence_score", 0) for r in ... if r.get("confidence_score")];
\* sum(scores) over the first n results
RECURSIVE sum_confidence(_, _)
sum_confidence(results, n) ==
    IF n = 0 THEN <<0, 1>>
    ELSE IF has_confidence(results[n])
         THEN add_fractions(sum_confidence(results, n - 1), results[n].confidence_score)
         ELSE sum_confidence(results, n - 1)

\* algorithms[algo] = algorithms.get(algo, 0) + 1 for every result
algorithms_used(results) ==
    LET algo(k) == Get(results[k], "algorithm", "unknown")
    IN  [a \in {algo(k) : k \in DOMAIN results} |->
            Cardinality({k \in DOMAIN results : algo(k) = a})]

generate_summary_statistics(results) ==
    LET total_features == Len(results)
        \* sum(1 for r in processed_results if ...)
        matched_features == Cardinality({k \in DOMAIN results : has_best_match(results[k])})
        high_confidence == Cardinality({k \in DOMAIN results : is_high_confidence(results[k])})
        \* len(scores)
        scores == Cardinality({k \in DOMAIN results : has_confidence(results[k])})
        total == sum_confidence(results, Len(results))
    IN  [total_features |-> total_features,
         matched_features |-> matched_features,
         match_rate |-> IF total_features > 0 THEN fraction(matched_features, total_features)
                        ELSE <<0, 1>>,
         high_confidence_matches |-> high_confidence,
         average_confidence_score |-> IF scores > 0 THEN fraction(total[1], total[2] * scores)
                                      ELSE <<0, 1>>,
         algorithms_used |-> algorithms_used(results)]

\* Matcher entries: no candidate, and one candidate of score 0.5 without a
\* matched peak, of score 0.7 and of score 1.0 with every peak matched.
CandidateInputs(a) ==
    {[library_id |-> "L1", compound_name |-> "A", score |-> 5, algorithm |-> a,
      matched_peaks |-> 0, total_peaks |-> 1],
     [library_id |-> "L1", compound_name |-> "A", score |-> 7, algorithm |-> a,
      matched_peaks |-> 1, total_peaks |-> 1],
     [library_id |-> "L1", compound_name |-> "A", score |-> 10, algorithm |-> a,
      matched_peaks |-> 1, total_peaks |-> 1]}
MatcherEntries(a) ==
    {[query_index |-> 0, query_spectrum |-> [precursor_mz |-> 1, retention_time |-> 60],
      matches |-> c, best_match |-> first_or_none(c)] :
        c \in {<<>>} \cup {<<m>> : m \in CandidateInputs(a)}}
\* The annotated results process_matching_results makes of them.
AnnotatedInputs ==
    UNION {{combined_result(WorkflowTable, e, a) : e \in MatcherEntries(a)} :
              a \in {"cosine", "ms2query"}}

InitSummary ==
    /\ xcms_peaks = <<>>
    /\ mz_tolerance = DEFAULT_MZ_TOLERANCE
    /\ rt_tolerance = DEFAULT_RT_TOLERANCE
    /\ precursor = [mz |-> 0, rt |-> 0]
    /\ matched_peak = None
    /\ ExtractIdle
    /\ CountIdle
    /\ WorkflowIdle
    /\ ConfidenceIdle
    /\ LoadIdle
    /\ annotated_results \in SeqsUpTo(AnnotatedInputs, MaxResults)
    /\ summary = NoneValue
    /\ pc = "generate_summary_statistics"
    /\ BroadcastIdle

GenerateSummaryStatistics ==
    /\ pc = "generate_summary_statistics"
    /\ summary' = generate_summary_statistics(annotated_results)
    /\ pc' = "returned"
    /\ UNCHANGED <<annotated_results, scoreVars, loadVars, outsideAggregator>>

NextSummary == GenerateSummaryStatistics

SpecSummary == InitSummary /\ [][NextSummary]_vars

\* The sum of the confidences of the first n results.
RECURSIVE ConfidenceSum(_)
ConfidenceSum(n) ==
    IF n = 0 THEN <<0, 1>>
    ELSE LET rest == ConfidenceSum(n - 1)
             c == annotated_results[n].confidence_score
         IN  <<rest[1] * c[2] + c[1] * rest[2], rest[2] * c[2]>>

\* C16: the mean confidence is the sum of the confidences of all annotated
\* results over their number (0 for no result); a confidence of 0 counts.
C16_MeanIsOverAllResults ==
    pc = "returned" =>
        LET total == ConfidenceSum(Len(annotated_results))
            mean == summary.average_confidence_score
        IN  IF annotated_results = <<>> THEN mean = <<0, 1>>
            ELSE mean[1] * total[2] * Len(annotated_results) = total[1] * mean[2]

Matched == {k \in DOMAIN annotated_results : annotated_results[k].best_match # NoneValue}
HighConfidence ==
    {k \in DOMAIN annotated_results :
        10 * annotated_results[k].confidence_score[1]
            >= 7 * annotated_results[k].confidence_score[2]}
RECURSIVE SumOf(_, _)
SumOf(f, S) == IF S = {} THEN 0 ELSE LET a == CHOOSE a \in S : TRUE IN f[a] + SumOf(f, S \ {a})

\* C17: the summary reports the number of results, the number with a best
\* match, their quotient (0 for no result), the number with a confidence of
\* 0.7 or more, and per-algorithm counts that sum to the number of results;
\* so high confidence <= matched <= total.
C17_SummaryCounts ==
    pc = "returned" =>
        /\ summary.total_features = Len(annotated_results)
        /\ summary.matched_features = Cardinality(Matched)
        /\ IF annotated_results = <<>> THEN summary.match_rate = <<0, 1>>
           ELSE summary.match_rate[1] * Len(annotated_results)
                    = Cardinality(Matched) * summary.match_rate[2]
        /\ summary.high_confidence_matches = Cardinality(HighConfidence)
        /\ SumOf(summary.algorithms_used, DOMAIN summary.algorithms_used)
               = Len(annotated_results)
        /\ \A a \in DOMAIN summary.algorithms_used :
               summary.algorithms_used[a] =
                   Cardinality({k \in DOMAIN annotated_results :
                                   annotated_results[k].algorithm = a})
        /\ summary.high_confidence_matches <= summary.matched_features
        /\ summary.matched_features <= summary.total_features

\* A summary of results of two algorithms: one of confidence exactly 0.7,
\* one matched below 0.7, one unmatched.
C17_Witness ==
    /\ pc = "returned"
    /\ summary.total_features = 3
    /\ summary.matched_features = 2
    /\ summary.high_confidence_matches = 1
    /\ \E k \in DOMAIN annotated_results : annotated_results[k].confidence_score = <<7, 10>>
    /\ Cardinality(DOMAIN summary.algorithms_used) = 2

(***************************************************************************)
(* Table Loader: load_xcms_data.  A file is [columns, blanks]: the header's *)
(* columns and, for every row, the columns whose cell is blank.  The other *)
(* cells of row r hold the number r, the name cell FeatureNames[r].        *)
(* pandas.read_csv reads a blank cell as NaN.                              *)
(***************************************************************************)
FloatFields == {"mz", "mzmin", "mzmax", "rt", "rtmin", "rtmax"}
Fields == {"name", "npeaks"} \cup FloatFields

\* row.get(field, default): the default stands for a missing column only
row_get(table, r, field, value, default) ==
    IF field \notin table.columns THEN default
    ELSE IF field \in table.blanks[r] THEN NaN
    ELSE value

\* str(row.get("name", ""))
name_of_row(table, r) ==
    IF "name" \notin table.columns THEN ""
    ELSE IF "name" \in table.blanks[r] THEN "nan"
    ELSE FeatureNames[r]

\* int(row.get("npeaks", 0)) raises ValueError for NaN
int_raises(table, r) == row_get(table, r, "npeaks", r, 0) = NaN

\* peak_data of row r
peak_data(table, r) ==
    [name |-> name_of_row(table, r),
     mz |-> row_get(table, r, "mz", r, 0),
     mzmin |-> row_get(table, r, "mzmin", r, 0),
     mzmax |-> row_get(table, r, "mzmax", r, 0),
     rt |-> row_get(table, r, "rt", r, 0),
     rtmin |-> row_get(table, r, "rtmin", r, 0),
     rtmax |-> row_get(table, r, "rtmax", r, 0),
     npeaks |-> row_get(table, r, "npeaks", r, 0)]

\* Files with any columns missing and at most one blank cell in a row, next
\* to a cell that is not blank (a line of blank cells only is no row).
CsvTables ==
    UNION {[columns : {c},
            blanks : SeqsUpTo({{}} \cup {{f} : f \in {g \in c : Cardinality(c) >= 2}},
                              MaxFeatures)] :
              c \in SUBSET Fields}

InitLoad ==
    /\ xcms_peaks = <<>>
    /\ mz_tolerance = DEFAULT_MZ_TOLERANCE
    /\ rt_tolerance = DEFAULT_RT_TOLERANCE
    /\ precursor = [mz |-> 0, rt |-> 0]
    /\ matched_peak = None
    /\ ExtractIdle
    /\ CountIdle
    /\ WorkflowIdle
    /\ ConfidenceIdle
    /\ SummaryIdle
    /\ csv_table \in CsvTables
    /\ loaded = [status |-> "pending"]
    /\ pc = "load_xcms_data"
    /\ BroadcastIdle

\* return peaks
LoadReturns ==
    /\ pc = "load_xcms_data"
    /\ \A r \in DOMAIN csv_table.blanks : ~int_raises(csv_table, r)
    /\ loaded' = [status |-> "ok",
                  peaks |-> [r \in DOMAIN csv_table.blanks |-> peak_data(csv_table, r)]]
    /\ pc' = "returned"
    /\ UNCHANGED <<csv_table, scoreVars, sumVars, outsideAggregator>>

\* except Exception as e: raise ValueError(f"Error loading XCMS data: ...")
LoadRaises ==
    /\ pc = "load_xcms_data"
    /\ \E r \in DOMAIN csv_table.blanks : int_raises(csv_table, r)
    /\ loaded' = [status |-> "ValueError"]
    /\ pc' = "raised"
    /\ UNCHANGED <<csv_table, scoreVars, sumVars, outsideAggregator>>

NextLoad == LoadReturns \/ LoadRaises

SpecLoad == InitLoad /\ [][NextLoad]_vars

\* The field of row r is missing from the header or blank in the row.
AbsentOrBlank(r, field) ==
    field \notin csv_table.columns \/ field \in csv_table.blanks[r]

\* C20: whichever optional fields are absent or blank in some rows, loading
\* succeeds and returns one feature per row, with 0 for an affected numeric
\* field and the empty string for an affected name.
C20_LoadDefaultsOptionalFields ==
    pc \in {"returned", "raised"} =>
        /\ loaded.status = "ok"
        /\ Len(loaded.peaks) = Len(csv_table.blanks)
        /\ \A r \in DOMAIN loaded.peaks :
               /\ AbsentOrBlank(r, "name") => loaded.peaks[r].name = ""
               /\ \A f \in FloatFields \cup {"npeaks"} :
                      AbsentOrBlank(r, f) => loaded.peaks[r][f] = 0

(***************************************************************************)
(* Further claims on the table loader, the locator and the extraction.     *)
(***************************************************************************)
\* a <= b on floats: false when either side is NaN
FloatLeq(a, b) == a # NaN /\ b # NaN /\ a <= b

\* C21: every feature load_xcms_data returns has mzmin <= mz <= mzmax and
\* rtmin <= rt <= rtmax, also when some of the fields were defaulted.
C21_LoadedFeatureWithinItsRanges ==
    pc = "returned" =>
        \A r \in DOMAIN loaded.peaks :
            /\ FloatLeq(loaded.peaks[r].mzmin, loaded.peaks[r].mz)
            /\ FloatLeq(loaded.peaks[r].mz, loaded.peaks[r].mzmax)
            /\ FloatLeq(loaded.peaks[r].rtmin, loaded.peaks[r].rt)
            /\ FloatLeq(loaded.peaks[r].rt, loaded.peaks[r].rtmax)

\* C22: a negative tolerance handed to the locator is rejected: the call does
\* not return a feature or None as if the tolerance were valid.
C22_NegativeToleranceIsRejected ==
    (pc = "returned" /\ (mz_tolerance < 0 \/ rt_tolerance < 0)) =>
        matched_peak \notin {None} \cup DOMAIN xcms_peaks

\* C28: for tolerances >= 0, zero included, find_matching_xcms_peak returns,
\* and it returns None exactly when no feature is within both bounds.
C28_NonNegativeToleranceNeverRaises ==
    (pc = "returned" /\ mz_tolerance >= 0 /\ rt_tolerance >= 0) =>
        /\ matched_peak # ZeroDivisionError
        /\ (matched_peak = None) <=> (Candidates = {})

\* The peaks of an emitted spectrum as <<mz, intensity>> pairs.
EmittedPeaks(s) == [j \in DOMAIN s.mz |-> <<s.mz[j], s.intensities[j]>>]
\* The pairs p are peaks of raw, in raw's order.
InOrderOf(p, raw) ==
    \E at \in [DOMAIN p -> DOMAIN raw] :
        /\ \A j \in DOMAIN p : raw[at[j]] = p[j]
        /\ \A j, h \in DOMAIN p : j < h => at[j] < at[h]

\* C27: every spectrum extract_ms2_spectra emits has at least one peak, every
\* peak of intensity >= min_intensity, the peaks in the order of a spectrum
\* read, n_peaks the length of both lists, and a feature_name that is its
\* matched_xcms_peak and the name of a feature of the table.
C27_EmittedSpectrumIsWellFormed ==
    \A i \in DOMAIN ms2_spectra :
        LET s == ms2_spectra[i]
        IN  /\ Len(s.mz) > 0
            /\ s.n_peaks = Len(s.mz)
            /\ s.n_peaks = Len(s.intensities)
            /\ \A j \in DOMAIN s.intensities : s.intensities[j] >= min_intensity
            /\ \E k \in DOMAIN run :
                   /\ run[k].precursor_mz = s.precursor_mz
                   /\ InOrderOf(EmittedPeaks(s), run[k].peaks)
            /\ s.feature_name = s.matched_xcms_peak
            /\ \E r \in DOMAIN xcms_peaks : xcms_peaks[r].name = s.feature_name

\* The extraction returned two spectra: one kept both of its peaks, the
\* other lost a peak under min_intensity.
C27_Witness ==
    /\ pc = "returned"
    /\ Len(ms2_spectra) = 2
    /\ Len(run[1].peaks) = 2
    /\ Len(run[2].peaks) = 2
    /\ \E i, h \in DOMAIN ms2_spectra :
           /\ ms2_spectra[i].mz = <<1, 2>>
           /\ ms2_spectra[h].n_peaks = 1

(***************************************************************************)
(* Further claims on the workflow.                                         *)
(***************************************************************************)
\* C24: process_matching_results gives one annotated result per match
\* result, in the same order, with or without candidates, a best match or a
\* resolved feature.
C24_OneResultPerMatchResult ==
    pc = "returned" =>
        /\ Len(processed_results) = Len(matching_results)
        /\ \A k \in DOMAIN matching_results :
               /\ processed_results[k].matches = matching_results[k].matches
               /\ processed_results[k].feature_name =
                      FeatureDefaultNames[matching_results[k].query_index + 1]

\* Two results: the first without candidates and without a feature, the
\* second with candidates and a feature.
C24_Witness ==
    /\ pc = "returned"
    /\ Len(processed_results) = 2
    /\ processed_results[1].matches = <<>>
    /\ processed_results[1].xcms_peak = NoneValue
    /\ processed_results[2].matches # <<>>
    /\ processed_results[2].xcms_peak # NoneValue

TraditionalAlgorithm ==
    IF requested_algorithm = "ms2query" THEN "cosine" ELSE requested_algorithm

\* C26: the candidates and the best match of a query are those the matcher
\* returns for it when it is the only query of the batch.
C26_QueryResultIndependentOfBatch ==
    ReachesTraditional =>
        \A k \in DOMAIN matching_results :
            LET alone == traditional_result(query_spectra[k], 0, library_spectra, similarity,
                                            TraditionalAlgorithm, mz_tolerance, min_score,
                                            top_n)
            IN  /\ matching_results[k].matches = alone.matches
                /\ matching_results[k].best_match = alone.best_match

\* C30: the candidates of one query, which come from distinct library
\* spectra, have distinct library_id values.
C30_CandidatesHaveDistinctLibraryIds ==
    ReachesTraditional =>
        \A k \in DOMAIN matching_results :
            \A m, h \in DOMAIN matching_results[k].matches :
                m # h => matching_results[k].matches[m].library_id
                             # matching_results[k].matches[h].library_id

(***************************************************************************)
(* Progress broadcast: broadcast_progress and the websocket_progress       *)
(* handlers, which share the list active_connections.  The coroutines run  *)
(* on one event loop: a step is the code between two awaits.               *)
(***************************************************************************)
Connections == 1..MaxConnections

\* x in list
InList(list, x) == \E i \in DOMAIN list : list[i] = x

\* list.remove(x) for an x that is in the list: the first occurrence goes.
remove(list, x) ==
    LET i == CHOOSE i \in DOMAIN list :
                 list[i] = x /\ \A j \in 1..(i - 1) : list[j] # x
    IN  SubSeq(list, 1, i - 1) \o SubSeq(list, i + 1, Len(list))

\* for conn in disconnected: active_connections.remove(conn)
\* list.remove raises ValueError for an element that is not in the list; the
\* removals made before it stay.
RECURSIVE remove_each(_, _)
remove_each(list, failed) ==
    IF failed = <<>> THEN [connections |-> list, raised |-> FALSE]
    ELSE IF ~InList(list, Head(failed)) THEN [connections |-> list, raised |-> TRUE]
    ELSE remove_each(remove(list, Head(failed)), Tail(failed))

\* A broadcast that forgets the connections whose send raised.
keep_disconnected(list, failed) ==
    [connections |-> list, raised |-> FALSE]

remove_disconnected(list, failed) ==
    remove_each(list, failed)

\* The lists active_connections can hold: each websocket object is appended
\* once, by its own handler.
ConnectionLists ==
    {l \in SeqsUpTo(Connections, MaxConnections) :
        \A i, j \in DOMAIN l : i # j => l[i] # l[j]}

\* A broadcast begins: some websockets are registered, and the peer of some
\* of them is already gone without the handler having noticed.
InitBroadcast ==
    /\ LocatorIdle
    /\ mz_tolerance = DEFAULT_MZ_TOLERANCE
    /\ ExtractIdle
    /\ CountIdle
    /\ WorkflowIdle
    /\ ConfidenceIdle
    /\ SummaryIdle
    /\ LoadIdle
    /\ active_connections \in ConnectionLists
    /\ link \in [Connections -> {"unused", "open", "closed"}]
    /\ \A c \in Connections : (link[c] = "unused") <=> ~InList(active_connections, c)
    /\ handler = [c \in Connections |->
                     IF InList(active_connections, c) THEN "receiving" ELSE "none"]
    /\ next_index = 0
    /\ disconnected = <<>>
    /\ attempts = [c \in Connections |-> 0]
    /\ delivered = [c \in Connections |-> 0]
    /\ registered_at_start = active_connections
    /\ pc = "broadcast_send"

\* One turn of "for connection in active_connections": the list iterator
\* yields the element at its index, send_json is awaited, and a send that
\* raises puts the connection on the local list.
BroadcastSend ==
    /\ pc = "broadcast_send"
    /\ next_index < Len(active_connections)
    /\ LET connection == active_connections[next_index + 1]
       IN  /\ attempts' = [attempts EXCEPT ![connection] = @ + 1]
           /\ IF link[connection] = "open"
                  THEN /\ delivered' = [delivered EXCEPT ![connection] = @ + 1]
                       /\ UNCHANGED disconnected
                  ELSE /\ disconnected' = Append(disconnected, connection)
                       /\ UNCHANGED delivered
    /\ next_index' = next_index + 1
    /\ UNCHANGED <<active_connections, link, handler, registered_at_start, pc,
                   outsideBroadcast>>

\* The iterator is exhausted; the removal loop has no await and runs in one
\* piece, to the end or to the ValueError of list.remove.
BroadcastFinishes ==
    /\ pc = "broadcast_send"
    /\ next_index >= Len(active_connections)
    /\ LET after == remove_disconnected(active_connections, disconnected)
       IN  /\ active_connections' = after.connections
           /\ pc' = IF after.raised THEN "broadcast_raised" ELSE "broadcast_done"
    /\ UNCHANGED <<link, handler, next_index, disconnected, attempts, delivered,
                   registered_at_start, outsideBroadcast>>

NextBroadcast == BroadcastSend \/ BroadcastFinishes

\* The broadcast alone on the event loop.  Once called, the coroutine runs
\* on: every send returns or raises.
SpecBroadcast == InitBroadcast /\ [][NextBroadcast]_vars /\ WF_vars(NextBroadcast)

\* websocket_progress up to its first receive_text: accept, then append.
Connect(c) ==
    /\ pc = "broadcast_send"
    /\ link[c] = "unused"
    /\ link' = [link EXCEPT ![c] = "open"]
    /\ handler' = [handler EXCEPT ![c] = "receiving"]
    /\ active_connections' = Append(active_connections, c)
    /\ UNCHANGED <<next_index, disconnected, attempts, delivered, registered_at_start, pc,
                   outsideBroadcast>>

\* The client of a registered websocket goes away.
PeerCloses(c) ==
    /\ pc = "broadcast_send"
    /\ link[c] = "open"
    /\ link' = [link EXCEPT ![c] = "closed"]
    /\ UNCHANGED <<active_connections, handler, next_index, disconnected, attempts,
                   delivered, registered_at_start, pc, outsideBroadcast>>

\* except WebSocketDisconnect: active_connections.remove(websocket)
HandlerDisconnects(c) ==
    /\ pc \in {"broadcast_send", "broadcast_done", "broadcast_raised"}
    /\ handler[c] = "receiving"
    /\ link[c] = "closed"
    /\ IF InList(active_connections, c)
           THEN /\ active_connections' = remove(active_connections, c)
                /\ handler' = [handler EXCEPT ![c] = "finished"]
           ELSE /\ handler' = [handler EXCEPT ![c] = "raised"]
                /\ UNCHANGED active_connections
    /\ UNCHANGED <<link, next_index, disconnected, attempts, delivered,
                   registered_at_start, pc, outsideBroadcast>>

NextInterleaved ==
    \/ BroadcastSend
    \/ BroadcastFinishes
    \/ \E c \in Connections : Connect(c)
    \/ \E c \in Connections : PeerCloses(c)
    \/ \E c \in Connections : HandlerDisconnects(c)

\* The broadcast with the handlers running whenever it is suspended.
SpecInterleaved == InitBroadcast /\ [][NextInterleaved]_vars

C29_InterleavedBroadcastIsSafe ==
    /\ pc # "broadcast_raised"
    /\ \A c \in Connections : handler[c] # "raised"
    /\ pc = "broadcast_done" =>
           /\ \A c \in Connections :
                  (InList(registered_at_start, c) /\ link[c] = "open") => delivered[c] = 1
           /\ \A c \in Connections :
                  InList(active_connections, c) =>
                      handler[c] # "finished" /\ ~InList(disconnected, c)

=============================================================================
